---- MODULE Spec2Model ----
(***************************************************************************)
(* A model of track_github_issues/tracker.py: GitHubIssueTracker.run and   *)
(* the functions it calls, run against a model of the GitHub API (the      *)
(* upstream issues, the tracking repository and the outcome of each        *)
(* request).                                                               *)
(*                                                                         *)
(* Text is a sequence of tokens.  "M" is the literal **Original Issue:**,  *)
(* "SP" a space, "NL" a newline, "RP" a closing parenthesis, "G" the       *)
(* literal https://github.com/, "A" and "T" the path owner/repo/issues/ of *)
(* an upstream repository and of the tracking repository, "1" and "2"      *)
(* digits, and every other token is text without whitespace.               *)
(***************************************************************************)
EXTENDS Integers, Sequences, FiniteSets, TLC

\* ------------------------------------------------------------ bounds

\* Runs of the tool that one behaviour starts.
MaxRuns == 3
\* Changes the environment makes to the upstream issues and to the labels.
MaxEnv == 3
\* Requests that fail (a status other than success, or an exception).
MaxFaults == 1
\* Length of an upstream issue body drawn for the round trip of the template.
MaxBodyLen == 4

\* ------------------------------------------------- program constants

\* min(self.per_page, 100): the page size the issue-list request asks for.
PageCap == 100
\* min(self.per_page * self.page_limit, 1000): the search request's per_page.
SearchCap == 1000

\* ------------------------------------------------------------- text

Min(a, b) == IF a <= b THEN a ELSE b

\* A body that is JSON null (Python None), as the API returns for an issue
\* written without a description.
NoBody == <<"None">>
\* None as the result of a URL extraction: no match.
NoUrl == <<>>
\* None as the result of _parse_issue_url.
NoParse == [repo |-> "", num |-> <<>>]

Whitespace == {"SP", "NL"}
Digits == {"1", "2"}
RepoPaths == {"A", "T"}
\* [^\s)] : what the URL group of the back-reference pattern goes on over.
UrlStop == Whitespace \cup {"RP"}

\* Python's `needle in hay` on strings.
Contains(hay, needle) ==
    \E k \in 1..(Len(hay) - Len(needle) + 1) :
        SubSeq(hay, k, k + Len(needle) - 1) = needle

\* The greedy run [^\s)]+ from position k of s.  "M" holds a space after
\* its first word, so the run takes that word ("M1") and stops.
RECURSIVE UrlRun(_, _)
UrlRun(s, k) ==
    IF k > Len(s) \/ s[k] \in UrlStop THEN <<>>
    ELSE IF s[k] = "M" THEN <<"M1">>
    ELSE <<s[k]>> \o UrlRun(s, k + 1)

\* Whether \*\*Original Issue:\*\* (https://github\.com/[^\s)]+) matches at k.
MatchesAt(s, k) ==
    /\ k + 3 <= Len(s)
    /\ s[k] = "M"
    /\ s[k + 1] = "SP"
    /\ s[k + 2] = "G"
    /\ s[k + 3] \notin UrlStop

\* _extract_original_issue_url: re.search returns the leftmost match.
ExtractOriginalIssueUrl(body) ==
    IF body = NoBody \/ body = <<>> THEN NoUrl
    ELSE LET hits == {k \in 1..Len(body) : MatchesAt(body, k)}
         IN  IF hits = {} THEN NoUrl
             ELSE LET k == CHOOSE h \in hits : \A g \in hits : h <= g
                  IN  <<"G">> \o UrlRun(body, k + 3)

\* The maximal run of digits from position k: (\d+).
RECURSIVE DigitRun(_, _)
DigitRun(s, k) ==
    IF k > Len(s) \/ s[k] \notin Digits THEN <<>>
    ELSE <<s[k]>> \o DigitRun(s, k + 1)

\* _parse_issue_url: github\.com/([^/]+)/([^/]+)/issues/(\d+), leftmost.
ParseIssueUrl(url) ==
    LET hits == {k \in 1..(Len(url) - 2) :
                    /\ url[k] = "G"
                    /\ url[k + 1] \in RepoPaths
                    /\ url[k + 2] \in Digits}
    IN  IF hits = {} THEN NoParse
        ELSE LET k == CHOOSE h \in hits : \A g \in hits : h <= g
             IN  [repo |-> url[k + 1], num |-> DigitRun(url, k + 2)]

\* ------------------------------------------------ the GitHub instance

\* The issues the search can return: issue 1 and issue 12 of one upstream
\* repository (ids 1 and 2), and issue 2 of the tracking repository (id 3).
Ids == {1, 2, 3}
\* The issues of upstream repositories: the environment changes these.
UpstreamIds == {1, 2}
\* self.users, in the order given on the command line.
Users == <<"alice", "bob">>
UserSet == {Users[k] : k \in 1..Len(Users)}
\* Page sizes and page limits the tool is run with (--per-page, --page-limit).
Configs == {[per_page |-> 1, page_limit |-> 1],
            [per_page |-> 1, page_limit |-> 2],
            [per_page |-> 2, page_limit |-> 2]}
\* Who can be made an assignee of which upstream issue.
Assignable == {<<1, "alice">>, <<1, "bob">>, <<2, "alice">>}
\* The processes that run the tool.
Procs == {1, 2}

IssueRepo(id) == IF id = 3 THEN "T" ELSE "A"
IssueNum(id) == IF id = 1 THEN <<"1">> ELSE IF id = 2 THEN <<"1", "2">> ELSE <<"2">>
\* issue['html_url']
HtmlUrl(id) == <<"G", IssueRepo(id)>> \o IssueNum(id)
\* issue['repository_url']: https://api.github.com/repos/<owner>/<repo>
RepositoryUrl(id) == <<"API", IssueRepo(id)>>
\* current_repo_url of get_assigned_issues
CurrentRepoUrl == <<"API", "T">>
\* The bodies the issues are written with: issue 1 has none, issue 12 quotes
\* a back-reference line that names issue 1, the tracking repository's own
\* issue holds plain text.
InitialBody(id) ==
    IF id = 1 THEN NoBody
    ELSE IF id = 2 THEN <<"x", "NL", "M", "SP", "G", "A", "1">>
    ELSE <<"x">>

\* _get_repo_name_from_url: /repos/([^/]+/[^/]+), else the URL itself.
GetRepoNameFromUrl(repo_url) ==
    IF Len(repo_url) >= 2 /\ repo_url[1] = "API" /\ repo_url[2] \in RepoPaths
    THEN <<IF repo_url[2] = "A" THEN "nameA" ELSE "nameT">>
    ELSE repo_url

\* A template that puts the copied body before the back-reference line.
IssueBodyAfterCopy(url, repo_url, state, body) ==
    (IF body = NoBody \/ body = <<>> THEN <<"No", "SP", "description">> ELSE body)
    \o <<"NL", "NL", "---", "NL", "NL", "M", "SP">> \o url
    \o <<"NL", "NL", "Repository", "SP">> \o GetRepoNameFromUrl(repo_url)
    \o <<"NL", "State", "SP", state>>

\* issue_body of create_tracking_issue.
IssueBody(url, repo_url, state, body) ==
    <<"M", "SP">> \o url
    \o <<"NL", "NL", "Repository", "SP">> \o GetRepoNameFromUrl(repo_url)
    \o <<"NL", "State", "SP", state>>
    \o <<"NL", "Created", "SP", "ts", "NL", "Updated", "SP", "ts">>
    \o <<"NL", "NL", "---", "NL", "NL">>
    \o (IF body = NoBody \/ body = <<>> THEN <<"No", "SP", "description">> ELSE body)

VARIABLES
    cfg,     \* [per_page, page_limit]: the tracker's configuration
    up,      \* the upstream issues: id -> [state, assignees, body]
    repo,    \* the tracking repository's labeled issues, newest first
    run,     \* per process: the locals of run() and its position
    hist,    \* what the previous run left: [ok, assigned]
    runs,    \* runs started
    envs,    \* changes the environment made
    faults,  \* requests that failed
    cli      \* the command line program: [pc, token, exit, constructed]

vars == <<cfg, up, repo, run, hist, runs, envs, faults, cli>>

\* A process that is not running the tool.  Beside the locals of run(), the
\* record notes what the run has done: the ids create_tracking_issue was
\* called for (creates) and made an issue for (made), the numbers
\* close_tracking_issue was called for (closes), patched, and posted a
\* comment request for (posts), the answers of the issue-get requests
\* (queries), of the searches (searches: the issues that matched each
\* user's search, whether it was answered with success and the items it
\* then delivered), the pages asked for (asked), whether a
\* request failed (fails), whether the fetched list is not the whole
\* repository (cut), and whether the environment moved meanwhile (env).
Idle ==
    [pc |-> "idle", u |-> 1, all |-> <<>>, assigned |-> <<>>, page |-> 1,
     snap |-> <<>>, processed |-> {}, i |-> 1, j |-> 1,
     creates |-> <<>>, closes |-> <<>>, queries |-> <<>>,
     fails |-> FALSE, cut |-> FALSE, env |-> FALSE,
     searches |-> <<>>, asked |-> <<>>, made |-> <<>>,
     patched |-> <<>>, posts |-> <<>>]

\* The issue-get endpoint: the upstream issue a parsed URL names, 0 if none.
IssueAt(parsed) ==
    IF \E id \in Ids : IssueRepo(id) = parsed.repo /\ IssueNum(id) = parsed.num
    THEN CHOOSE id \in Ids : IssueRepo(id) = parsed.repo /\ IssueNum(id) = parsed.num
    ELSE 0

\* page `page` of `list` at `size` a page, as the issue-list endpoint cuts it.
PageOf(list, size, page) ==
    SubSeq(list, (page - 1) * size + 1, Min(page * size, Len(list)))

\* The sequences without repetition, of length n, over the set S.
Arrangements(S, n) ==
    {s \in [1..n -> S] : \A a, b \in 1..n : a # b => s[a] # s[b]}

\* {issue['id']: issue for issue in all_issues}.values(): one entry an id,
\* in the order of the first occurrence.
RECURSIVE UniqueIssues(_)
UniqueIssues(all) ==
    IF all = <<>> THEN <<>>
    ELSE LET front == UniqueIssues(SubSeq(all, 1, Len(all) - 1))
             last == all[Len(all)]
         IN  IF \E k \in 1..Len(front) : front[k] = last
             THEN front ELSE Append(front, last)

\* filtered_issues with nothing taken out.
UnfilteredIssues(issues) == issues

\* filtered_issues: without the issues of the tracking repository itself.
FilteredIssues(issues) ==
    SelectSeq(issues, LAMBDA id : RepositoryUrl(id) # CurrentRepoUrl)

\* ------------------------------------------------------ the requests

\* A request ends with the success status, with another status, or raises.
Outcomes == {"ok", "status", "exc"}

\* The outcomes a request can have now, and the count of the failed ones.
Possible == IF faults < MaxFaults THEN Outcomes ELSE {"ok"}
Counted(failed) == faults' = IF failed THEN faults + 1 ELSE faults

\* The items of the search is:issue is:open assignee:<user>.
SearchHits(user) ==
    {id \in Ids : up[id].state = "open" /\ user \in up[id].assignees}

\* effective_limit of get_assigned_issues and get_existing_tracking_issues.
EffectiveLimit == Min(cfg.per_page * cfg.page_limit, SearchCap)

\* The issue the issue-create endpoint adds for upstream issue id.  The
\* issue-list request sends no sort parameter (lines 181-186), so the
\* endpoint lists by creation time, newest first: a new issue goes in front.
NewTracking(id) ==
    [number |-> Len(repo) + 1,
     state |-> "open",
     body |-> IssueBody(HtmlUrl(id), RepositoryUrl(id), "open", up[id].body),
     comments |-> 0]

\* The tracking repository after PATCH {state: closed} on issue `number`.
Patched(number) ==
    [k \in 1..Len(repo) |->
        IF repo[k].number = number THEN [repo[k] EXCEPT !.state = "closed"]
        ELSE repo[k]]

\* The tracking repository after a comment is posted on issue `number`.
Commented(list, number) ==
    [k \in 1..Len(list) |->
        IF list[k].number = number
        THEN [list[k] EXCEPT !.comments = @ + 1]
        ELSE list[k]]

\* ------------------------------------------------------------- run()

\* Line 322: the reverse pass starts, or the run ends with nothing to scan.
EnterReverse(r) ==
    IF r.snap = <<>> THEN [r EXCEPT !.pc = "done"]
    ELSE [r EXCEPT !.pc = "reverse", !.j = 1]

\* Line 295: the forward pass starts.
EnterForward(r) ==
    IF r.assigned = <<>> THEN EnterReverse(r)
    ELSE [r EXCEPT !.pc = "forward", !.i = 1]

\* get_existing_tracking_issues returns: run() goes on with what it holds.
IndexReturns(r) == EnterForward([r EXCEPT !.cut = (r.snap # repo)])

\* The loop test letting one page more through.
IndexLoopOneMore(r) ==
    IF r.page <= cfg.page_limit + 1 THEN [r EXCEPT !.pc = "index"]
    ELSE IndexReturns(r)

\* Line 176: while page <= self.page_limit.
IndexLoop(r) ==
    IF r.page <= cfg.page_limit THEN [r EXCEPT !.pc = "index"]
    ELSE IndexReturns(r)

\* run() is called.
StartRun(p) ==
    /\ cli.pc = "running"
    /\ run[p].pc = "idle"
    /\ runs < MaxRuns
    /\ runs' = runs + 1
    /\ run' = [run EXCEPT ![p] = [Idle EXCEPT !.pc = "search"]]
    /\ UNCHANGED <<cli, cfg, up, repo, hist, envs, faults>>

\* get_assigned_issues without the dedup of line 154.
AssignedKeepingDuplicates(all) == FilteredIssues(all)

\* What get_assigned_issues returns of all_issues (lines 153-166).
AssignedOfAll(all) == FilteredIssues(UniqueIssues(all))

\* all_issues emptied by a search that fails.
AfterSearchDropping(all, items, o) == IF o = "ok" THEN all \o items ELSE <<>>

\* Lines 145-151: all_issues after one user's search: extended with the
\* items of a 200 answer, left as it is by any other answer or an exception.
AfterSearch(all, items, o) == IF o = "ok" THEN all \o items ELSE all

\* get_assigned_issues, one user's search request (lines 118-151), and after
\* the last user the dedup and the filter (lines 153-166).
SearchUser(p) ==
    /\ run[p].pc = "search"
    /\ \E o \in Possible :
       \E items \in Arrangements(SearchHits(Users[run[p].u]),
                     Min(EffectiveLimit, Cardinality(SearchHits(Users[run[p].u])))) :
          LET r == run[p]
              all == AfterSearch(r.all, items, o)
              r1 == [r EXCEPT !.all = all, !.fails = @ \/ o # "ok",
                              !.searches =
                                  Append(@, [ok |-> o = "ok",
                                             hits |-> SearchHits(Users[r.u]),
                                             items |-> IF o = "ok" THEN items
                                                       ELSE <<>>])]
          IN  /\ run' = [run EXCEPT ![p] =
                     IF r.u < Len(Users) THEN [r1 EXCEPT !.u = @ + 1]
                     ELSE IndexLoop([r1 EXCEPT !.assigned = AssignedOfAll(all),
                                               !.page = 1, !.snap = <<>>])]
              /\ Counted(o # "ok")
    /\ UNCHANGED <<cli, cfg, up, repo, hist, runs, envs>>

\* A failed page request that throws away the pages fetched before it.
PageFailedDropping(r) ==
    IndexReturns([r EXCEPT !.fails = TRUE, !.snap = <<>>])

\* Lines 196-201: a status other than 200, or an exception, leaves the loop.
PageFailed(r) == IndexReturns([r EXCEPT !.fails = TRUE])

\* Line 193: if len(issues) < self.per_page: break.
LastPage(issues) == Len(issues) < cfg.per_page

\* get_existing_tracking_issues, one pass of its loop (lines 176-201).
FetchPage(p) ==
    /\ run[p].pc = "index"
    /\ \E o \in Possible :
          LET r == [run[p] EXCEPT !.asked = Append(@, run[p].page)]
              issues == PageOf(repo, Min(cfg.per_page, PageCap), r.page)
          IN  /\ run' = [run EXCEPT ![p] =
                     IF o # "ok" THEN PageFailed(r)
                     ELSE IF issues = <<>> THEN IndexReturns(r)
                     ELSE IF LastPage(issues)
                          THEN IndexReturns([r EXCEPT !.snap = @ \o issues])
                     ELSE IndexLoop([r EXCEPT !.snap = @ \o issues,
                                              !.page = @ + 1])]
              /\ Counted(o # "ok")
    /\ UNCHANGED <<cli, cfg, up, repo, hist, runs, envs>>

\* Lines 301-305: the first tracking issue whose body holds the URL, 0 if
\* none, -1 when the scan meets a body that is None first (`in` raises).
RECURSIVE ScanFrom(_, _, _)
ScanFrom(snap, url, k) ==
    IF k > Len(snap) THEN 0
    ELSE IF snap[k].body = NoBody THEN -1
    ELSE IF Contains(snap[k].body, url) THEN k
    ELSE ScanFrom(snap, url, k + 1)

\* The scan made over the tracking repository as it is at the time of the
\* scan, in place of the list fetched at the start of the run.
ExistingTrackingNow(snap, url) == ScanFrom(repo, url, 1)

ExistingTracking(snap, url) == ScanFrom(snap, url, 1)

\* The forward pass, one assigned issue (lines 295-317), with the request of
\* create_tracking_issue (lines 227-248).
ForwardStep(p) ==
    /\ run[p].pc = "forward"
    /\ \E o \in IF ExistingTracking(run[p].snap,
                                     HtmlUrl(run[p].assigned[run[p].i])) = 0
                THEN Possible ELSE {"ok"} :
          LET r == run[p]
              id == r.assigned[r.i]
              url == HtmlUrl(id)
              found == ExistingTracking(r.snap, url)
              r1 == [r EXCEPT !.processed = @ \cup {url}]
              r2 == IF found = 0
                    THEN [r1 EXCEPT !.creates = Append(@, id),
                                    !.made = IF o = "ok" THEN Append(@, id) ELSE @,
                                    !.fails = @ \/ o # "ok"]
                    ELSE r1
              r3 == IF r.i < Len(r.assigned) THEN [r2 EXCEPT !.i = @ + 1]
                    ELSE EnterReverse(r2)
          IN  /\ run' = [run EXCEPT ![p] =
                     IF found = -1 THEN [r1 EXCEPT !.pc = "crashed"] ELSE r3]
              /\ repo' = IF found = 0 /\ o = "ok"
                         THEN <<NewTracking(id)>> \o repo ELSE repo
              /\ Counted(o # "ok")
    /\ UNCHANGED <<cli, cfg, up, hist, runs, envs>>

\* The answer of the issue-get request for a parsed URL: the status, and
\* with status 200 the state of the issue.
Response(parsed, o) ==
    IF o = "exc" THEN [status |-> "exc", state |-> "none"]
    ELSE IF o = "status" THEN [status |-> "500", state |-> "none"]
    ELSE IF IssueAt(parsed) = 0 THEN [status |-> "404", state |-> "none"]
    ELSE [status |-> "200", state |-> up[IssueAt(parsed)].state]

\* _is_original_issue_closed taking a request that failed for a closed issue.
IsClosedOrUnreachable(url, o) ==
    /\ ParseIssueUrl(url) # NoParse
    /\ \/ Response(ParseIssueUrl(url), o).status # "200"
       \/ Response(ParseIssueUrl(url), o).state = "closed"

\* _is_original_issue_closed taking any answer of 200 for a closed issue.
IsAnswered(url, o) ==
    /\ ParseIssueUrl(url) # NoParse
    /\ Response(ParseIssueUrl(url), o).status = "200"

\* _is_original_issue_closed (lines 95-112).
IsOriginalIssueClosed(url, o) ==
    /\ ParseIssueUrl(url) # NoParse
    /\ Response(ParseIssueUrl(url), o).status = "200"
    /\ Response(ParseIssueUrl(url), o).state = "closed"

\* The reverse pass without its test of the fetched state.
MustCheckAnyState(tracking, processed) ==
    /\ ExtractOriginalIssueUrl(tracking.body) # NoUrl
    /\ ExtractOriginalIssueUrl(tracking.body) \notin processed

\* Lines 323-333: whether the reverse pass goes on to query the original.
MustCheck(tracking, processed) ==
    /\ tracking.state = "open"
    /\ ExtractOriginalIssueUrl(tracking.body) # NoUrl
    /\ ExtractOriginalIssueUrl(tracking.body) \notin processed

\* The reverse pass, one tracking issue (lines 322-341), with the requests
\* of _is_original_issue_closed and close_tracking_issue (lines 250-277).
\* The locals are bound once, as values: tracking, original_url, whether
\* the pass goes on to ask (check, asks) and whether it closes (close).
ReverseStep(p) ==
    /\ run[p].pc = "reverse"
    /\ \E r \in {run[p]} :
       \E tracking \in {r.snap[r.j]} :
       \E url \in {ExtractOriginalIssueUrl(tracking.body)} :
       \E check \in {MustCheck(tracking, r.processed)} :
       \E asks \in {check /\ ParseIssueUrl(url) # NoParse} :
       \E oq \in IF asks THEN Possible ELSE {"ok"} :
       \E close \in {check /\ IsOriginalIssueClosed(url, oq)} :
       \E oc \in IF close THEN Possible ELSE {"ok"} :
       \E om \in IF close /\ oc = "ok" THEN Possible ELSE {"ok"} :
           LET resp == Response(ParseIssueUrl(url), oq)
               r1 == IF asks
                     THEN [r EXCEPT !.queries =
                               Append(@, [number |-> tracking.number,
                                          resp |-> resp]),
                                    !.fails = @ \/ resp.status # "200"]
                     ELSE r
               r2 == IF close
                     THEN [r1 EXCEPT !.closes = Append(@, tracking.number),
                                     !.patched = IF oc = "ok"
                                                 THEN Append(@, tracking.number)
                                                 ELSE @,
                                     !.posts = IF oc = "ok"
                                               THEN Append(@, tracking.number)
                                               ELSE @,
                                     !.fails = @ \/ oc # "ok" \/ om # "ok"]
                     ELSE r1
               r3 == IF r.j < Len(r.snap) THEN [r2 EXCEPT !.j = @ + 1]
                     ELSE [r2 EXCEPT !.pc = "done"]
           IN  /\ run' = [run EXCEPT ![p] = r3]
               /\ repo' = IF close /\ oc = "ok"
                          THEN IF om = "ok"
                               THEN Commented(Patched(tracking.number),
                                              tracking.number)
                               ELSE Patched(tracking.number)
                          ELSE repo
               /\ Counted(oq # "ok" \/ oc # "ok" \/ om # "ok")
    /\ UNCHANGED <<cli, cfg, up, hist, runs, envs>>

\* run() returns ('Issue sync completed!'), or the process has died of the
\* exception that left run().
EndRun(p) ==
    /\ run[p].pc \in {"done", "crashed"}
    /\ hist' = [ok |-> run[p].pc = "done" /\ ~run[p].fails /\ ~run[p].env,
                assigned |-> run[p].assigned]
    /\ run' = [run EXCEPT ![p] = Idle]
    /\ UNCHANGED <<cli, cfg, up, repo, runs, envs, faults>>

\* ------------------------------------------------- the environment

\* The environment moves between runs, and during a run after its searches
\* and before its two passes.  Every change is noted in the running
\* processes' records and ends what the previous run vouches for.
EnvNotes ==
    /\ envs < MaxEnv
    /\ \A q \in Procs : run[q].pc \in {"idle", "index"}
    /\ envs' = envs + 1
    /\ hist' = [hist EXCEPT !.ok = FALSE]
    /\ run' = [q \in Procs |->
                 IF run[q].pc = "idle" THEN run[q] ELSE [run[q] EXCEPT !.env = TRUE]]
    /\ UNCHANGED <<cli, cfg, runs, faults>>

Assign(id, user) ==
    /\ user \notin up[id].assignees
    /\ up' = [up EXCEPT ![id].assignees = @ \cup {user}]
    /\ EnvNotes
    /\ UNCHANGED repo

Unassign(id, user) ==
    /\ user \in up[id].assignees
    /\ up' = [up EXCEPT ![id].assignees = @ \ {user}]
    /\ EnvNotes
    /\ UNCHANGED repo

CloseUpstream(id) ==
    /\ up[id].state = "open"
    /\ up' = [up EXCEPT ![id].state = "closed"]
    /\ EnvNotes
    /\ UNCHANGED repo

ReopenUpstream(id) ==
    /\ up[id].state = "closed"
    /\ up' = [up EXCEPT ![id].state = "open"]
    /\ EnvNotes
    /\ UNCHANGED repo

\* Someone labels an issue of the tracking repository that has no
\* description with the tracking label.
LabelForeign ==
    /\ repo' = <<[number |-> Len(repo) + 1, state |-> "open",
                  body |-> NoBody, comments |-> 0]>> \o repo
    /\ EnvNotes
    /\ UNCHANGED up

Environment ==
    \/ \E a \in Assignable : Assign(a[1], a[2])
    \/ \E a \in Assignable : Unassign(a[1], a[2])
    \/ \E id \in UpstreamIds : CloseUpstream(id)
    \/ \E id \in UpstreamIds : ReopenUpstream(id)
    \/ LabelForeign

\* ---------------------------------------------------- specification

\* The command line program as run_tracker has left it once it has
\* constructed the tracker with this token and calls tracker.run().
Invoked(token) ==
    [pc |-> "running", token |-> token, exit |-> -1, constructed |-> TRUE]

Init ==
    /\ cfg \in Configs
    /\ up = [id \in Ids |-> [state |-> "open", assignees |-> {},
                             body |-> InitialBody(id)]]
    /\ repo = <<>>
    /\ run = [q \in Procs |-> Idle]
    /\ hist = [ok |-> FALSE, assigned |-> <<>>]
    /\ runs = 0
    /\ envs = 0
    /\ faults = 0
    /\ cli = Invoked("tok")

\* The tool is run by one process, one run after the other.
Next ==
    \/ StartRun(1)
    \/ SearchUser(1)
    \/ FetchPage(1)
    \/ ForwardStep(1)
    \/ ReverseStep(1)
    \/ EndRun(1)
    \/ Environment

Spec == Init /\ [][Next]_vars

\* ------------------------------------------------------- properties

Range(seq) == {seq[k] : k \in 1..Len(seq)}
Count(seq, x) == Cardinality({k \in 1..Len(seq) : seq[k] = x})
UrlsOfIssues == {HtmlUrl(id) : id \in Ids}

\* The run of process 1 went through with every request answered with
\* success, fetched every tracking issue, and nothing changed meanwhile.
CleanRunDone ==
    /\ run[1].pc = "done"
    /\ ~run[1].fails
    /\ ~run[1].cut
    /\ ~run[1].env

\* C1: at most one open tracking issue has a given upstream URL as its
\* back-reference, in every state that runs one after the other reach.
AtMostOneOpenMirror ==
    \A url \in UrlsOfIssues :
        Cardinality({k \in 1..Len(repo) :
                        /\ repo[k].state = "open"
                        /\ ExtractOriginalIssueUrl(repo[k].body) = url}) <= 1

\* C2: idempotence: a run that follows a run with the upstream issues, the
\* labels and the search results unchanged, no request of either failing,
\* calls create_tracking_issue for nothing.
SecondRunCreatesNothing ==
    (/\ run[1].pc \in {"index", "forward", "reverse", "done"}
     /\ hist.ok
     /\ ~run[1].fails
     /\ run[1].assigned = hist.assigned)
        => run[1].creates = <<>>

EveryAssignedHasMirror ==
    CleanRunDone =>
        \A id \in Range(run[1].assigned) :
            \E k \in 1..Len(repo) :
                ExtractOriginalIssueUrl(repo[k].body) = HtmlUrl(id)

\* C5: reverse-pass postcondition: after a clean run every open tracking
\* issue with a back-reference refers to an original that is open and in
\* the Source Fetcher's output of the run.
EveryOpenMirrorIsLive ==
    CleanRunDone =>
        \A k \in 1..Len(repo) :
            (repo[k].state = "open"
             /\ ExtractOriginalIssueUrl(repo[k].body) # NoUrl)
                => LET id == IssueAt(ParseIssueUrl(
                                 ExtractOriginalIssueUrl(repo[k].body)))
                   IN  /\ id # 0
                       /\ up[id].state = "open"
                       /\ id \in Range(run[1].assigned)

\* C6: no open work is lost: after a clean run every assigned issue is the
\* back-reference of at least one open tracking issue.  Stated for the
\* issues whose URL no tracking issue holds other than as its
\* back-reference, so that no other URL stands in for it.
EveryAssignedHasOpenMirror ==
    CleanRunDone =>
        \A id \in Range(run[1].assigned) :
            (\A k \in 1..Len(repo) :
                (repo[k].body # NoBody /\ Contains(repo[k].body, HtmlUrl(id)))
                    => ExtractOriginalIssueUrl(repo[k].body) = HtmlUrl(id))
            => \E k \in 1..Len(repo) :
                  /\ repo[k].state = "open"
                  /\ ExtractOriginalIssueUrl(repo[k].body) = HtmlUrl(id)

\* C7: per-item fault isolation: no exception leaves run().
NoExceptionLeavesRun == run[1].pc # "crashed"

\* C9: deduplication: get_assigned_issues yields an issue once however many
\* users' searches return it, and the forward pass calls
\* create_tracking_issue for it at most once, and once when it ends having
\* found no tracking issue that holds the issue's URL.
Deduplication ==
    LET r == run[1]
    IN  /\ \A id \in Ids : Count(r.assigned, id) <= 1
        /\ \A id \in Ids : Count(r.creates, id) <= 1
        /\ r.pc \in {"reverse", "done"} =>
              \A id \in Range(r.assigned) :
                  ExistingTracking(r.snap, HtmlUrl(id)) = 0
                      => Count(r.creates, id) = 1

\* Two users' searches returned the same issue, and the forward pass has
\* created its one tracking issue.
DeduplicationWitness ==
    \E id \in Ids :
        /\ Count(run[1].all, id) = 2
        /\ run[1].pc \in {"reverse", "done"}
        /\ run[1].creates = <<id>>
        /\ \E k \in 1..Len(repo) :
              ExtractOriginalIssueUrl(repo[k].body) = HtmlUrl(id)

\* ------------------------------------- the template and its extractor

\* The tokens an issue body is written with.
Alphabet == {"M", "SP", "G", "A", "1", "NL", "RP", "x"}
Bodies == {NoBody} \cup UNION {[1..n -> Alphabet] : n \in 0..MaxBodyLen}

\* An upstream issue with any body is assigned, found by the search, and the
\* forward pass is about to handle it with no tracking issue fetched.
InitRoundTrip ==
    /\ cfg = [per_page |-> 2, page_limit |-> 2]
    /\ \E id \in UpstreamIds, b \in Bodies :
          /\ up = [x \in Ids |->
                     [state |-> "open",
                      assignees |-> IF x = id THEN {"alice"} ELSE {},
                      body |-> IF x = id THEN b ELSE InitialBody(x)]]
          /\ run = [q \in Procs |->
                      IF q = 1
                      THEN [Idle EXCEPT !.pc = "forward", !.u = Len(Users),
                                        !.all = <<id>>, !.assigned = <<id>>]
                      ELSE Idle]
    /\ repo = <<>>
    /\ hist = [ok |-> FALSE, assigned |-> <<>>]
    /\ runs = 1
    /\ envs = 0
    /\ faults = 0
    /\ cli = Invoked("tok")

SpecRoundTrip == InitRoundTrip /\ [][ForwardStep(1)]_vars

\* C10: the back-reference round trip: the URL that
\* _extract_original_issue_url recovers from the body create_tracking_issue
\* builds for an upstream issue is that issue's html_url, whatever the body
\* of the upstream issue holds.
BackReferenceRoundTrip ==
    \A k \in 1..Len(repo) :
        /\ Len(run[1].creates) = 1
        /\ ExtractOriginalIssueUrl(repo[k].body) = HtmlUrl(run[1].creates[1])

\* A tracking issue was created from an upstream issue whose own body holds
\* a back-reference line that names another URL.
BackReferenceRoundTripWitness ==
    /\ repo # <<>>
    /\ \E id \in Ids :
          /\ run[1].creates = <<id>>
          /\ ExtractOriginalIssueUrl(up[id].body) # NoUrl
          /\ ExtractOriginalIssueUrl(up[id].body) # HtmlUrl(id)

\* --------------------------------------------------- the Mirror Index

\* Page sizes, page limits and numbers of labeled issues on both sides of
\* the caps of the issue-list request.
IndexPerPage == {1, 2, 3, 50, 99, 100, 101, 150}
IndexPageLimit == {-1, 0, 1, 2, 3}
IndexSizes == (0..7) \cup {99, 100, 101, 102, 150, 200, 201, 250, 300, 301}

\* The tracking repository holds n labeled issues, newest first.
Labeled(n) ==
    [k \in 1..n |-> [number |-> n + 1 - k, state |-> "open",
                     body |-> <<"x">>, comments |-> 0]]

\* run() has called get_existing_tracking_issues with nothing assigned.
InitIndex ==
    /\ cfg \in [per_page : IndexPerPage, page_limit : IndexPageLimit]
    /\ up = [id \in Ids |-> [state |-> "open", assignees |-> {},
                             body |-> InitialBody(id)]]
    /\ \E n \in IndexSizes : repo = Labeled(n)
    /\ run = [q \in Procs |->
                IF q = 1
                THEN IndexLoop([Idle EXCEPT !.u = Len(Users), !.page = 1])
                ELSE Idle]
    /\ hist = [ok |-> FALSE, assigned |-> <<>>]
    /\ runs = 1
    /\ envs = 0
    /\ faults = 0
    /\ cli = Invoked("tok")

SpecIndex == InitIndex /\ [][FetchPage(1)]_vars

\* C8: Mirror Index completeness: when every page request succeeds,
\* get_existing_tracking_issues returns the first
\* min(N, page_size * page_limit) labeled issues of the N the tracking
\* repository holds.
MirrorIndexComplete ==
    (run[1].pc # "index" /\ ~run[1].fails)
        => run[1].snap =
               SubSeq(repo, 1, Min(Len(repo), cfg.per_page * cfg.page_limit))

\* C13: Mirror Index partial failure: when the request for page k fails
\* (exception or a status other than 200) after pages 1..k-1 were answered
\* with full pages, get_existing_tracking_issues returns exactly the issues
\* of pages 1..k-1, asks for no further page and lets no exception out.
IndexPartialFailure ==
    run[1].fails =>
        LET k == Len(run[1].asked)
            size == Min(cfg.per_page, PageCap)
        IN  /\ run[1].pc \notin {"index", "crashed"}
            /\ k >= 1
            /\ run[1].asked[k] = k
            /\ (k - 1) * size <= Len(repo)
            /\ run[1].snap = SubSeq(repo, 1, (k - 1) * size)

\* The request for a page after the first has failed.
IndexPartialFailureWitness ==
    /\ run[1].fails
    /\ Len(run[1].asked) >= 2
    /\ run[1].snap # <<>>

\* C20: pagination terminates: whatever per_page, page_limit (zero and
\* negative included) and the answers, the loop asks for pages 1, 2, 3, ...
\* in order, each once, at most max(page_limit, 0) of them, and goes on only
\* while fewer than page_limit have been asked for.
PaginationBounded ==
    LET n == Len(run[1].asked)
    IN  /\ run[1].asked = [k \in 1..n |-> k]
        /\ n <= IF cfg.page_limit > 0 THEN cfg.page_limit ELSE 0
        /\ run[1].pc = "index" => n < cfg.page_limit

\* The loop has ended on the page limit, having asked for three pages.
PaginationBoundedWitness ==
    /\ run[1].pc # "index"
    /\ ~run[1].fails
    /\ cfg.page_limit = 3
    /\ Len(run[1].asked) = cfg.page_limit
    /\ Len(run[1].snap) < Len(repo)

\* ------------------------------------------- the repository's own issues

\* The tool is run where a tracked user has been assigned an issue of the
\* tracking repository itself, which counts as one change of the
\* environment: the searches return the issue beside the others.
InitSelf ==
    /\ cfg \in Configs
    /\ up = [id \in Ids |->
               [state |-> "open",
                assignees |-> IF id = 3 THEN {Users[1]} ELSE {},
                body |-> InitialBody(id)]]
    /\ repo = <<>>
    /\ run = [q \in Procs |-> Idle]
    /\ hist = [ok |-> FALSE, assigned |-> <<>>]
    /\ runs = 0
    /\ envs = 1
    /\ faults = 0
    /\ cli = Invoked("tok")

SpecSelf == InitSelf /\ [][Next]_vars

\* The issues of the tracking repository itself.
OwnIds == {id \in Ids : RepositoryUrl(id) = CurrentRepoUrl}

\* C11: no self-tracking: no issue whose repository_url is the tracking
\* repository's own API URL is in what get_assigned_issues returns, so no
\* run calls create_tracking_issue for one and no tracking issue holds the
\* URL of one as its back-reference.
NoSelfTracking ==
    \A id \in OwnIds :
        /\ id \notin Range(run[1].assigned)
        /\ id \notin Range(run[1].creates)
        /\ \A k \in 1..Len(repo) :
              ExtractOriginalIssueUrl(repo[k].body) # HtmlUrl(id)

\* A search has returned an issue of the tracking repository and the run
\* went on to its end, having made a tracking issue for another issue.
NoSelfTrackingWitness ==
    /\ run[1].pc = "done"
    /\ \E id \in OwnIds : id \in Range(run[1].all)
    /\ run[1].made # <<>>

\* ------------------------------------------------- the command line

\* The values --gh-token / GH_TOKEN can leave in gh_token: none given, the
\* empty string, a token.
Tokens == {"None", "", "tok"}

\* not gh_token
Falsy(token) == token \in {"None", ""}

\* main() is entered with some token, nothing constructed, nothing asked.
InitCli ==
    /\ cfg \in Configs
    /\ up = [id \in Ids |-> [state |-> "open", assignees |-> {},
                             body |-> InitialBody(id)]]
    /\ repo = <<>>
    /\ run = [q \in Procs |-> Idle]
    /\ hist = [ok |-> FALSE, assigned |-> <<>>]
    /\ runs = 0
    /\ envs = 0
    /\ faults = 0
    /\ \E token \in Tokens :
          cli = [pc |-> "main", token |-> token, exit |-> -1,
                 constructed |-> FALSE]

\* run_tracker: without a token it echoes the error and returns; with one it
\* constructs the tracker, whose _get_repo_info finds the repository or
\* ends the process with sys.exit(1), and calls tracker.run().
RunTracker ==
    /\ cli.pc = "main"
    /\ \E found \in BOOLEAN :
          cli' = IF Falsy(cli.token) THEN [cli EXCEPT !.pc = "returned"]
                 ELSE IF found THEN Invoked(cli.token)
                 ELSE [cli EXCEPT !.pc = "exited", !.exit = 1]
    /\ UNCHANGED <<cfg, up, repo, run, hist, runs, envs, faults>>

\* run_tracker has returned to main(), which returns: the click command ends
\* the process with status 0.
MainReturns ==
    /\ cli.pc = "returned"
    /\ cli' = [cli EXCEPT !.pc = "exited", !.exit = 0]
    /\ UNCHANGED <<cfg, up, repo, run, hist, runs, envs, faults>>

NextCli ==
    \/ RunTracker
    \/ MainReturns
    \/ Next

SpecCli == InitCli /\ [][NextCli]_vars

\* C12: missing token: with no token the program ends with a non-zero exit
\* status, having constructed no tracker and issued no request.
MissingTokenIsFatal ==
    (Falsy(cli.token) /\ cli.pc = "exited")
        => /\ cli.exit # 0
           /\ ~cli.constructed
           /\ run[1] = Idle

\* ------------------------------------------------ searches that fail

\* get_assigned_issues has returned in the run of process 1.
SearchesDone == run[1].pc \in {"index", "forward", "reverse", "done", "crashed"}

\* The issues the searches that were answered with success have delivered.
Delivered ==
    UNION {Range(run[1].searches[u].items) :
              u \in {v \in 1..Len(run[1].searches) : run[1].searches[v].ok}}

\* C14: Source Fetcher partial failure: when a user's search fails, every
\* other user is still queried and get_assigned_issues returns exactly the
\* issues the successful searches delivered, each once, without the issues
\* of the tracking repository.
SearchPartialFailure ==
    SearchesDone =>
        /\ Len(run[1].searches) = Len(Users)
        /\ Range(run[1].assigned) = Delivered \ OwnIds
        /\ \A id \in Ids : Count(run[1].assigned, id) <= 1

\* The first user's search has failed where it had issues to deliver, and
\* the second user's search has delivered issues.
SearchPartialFailureWitness ==
    /\ SearchesDone
    /\ ~run[1].searches[1].ok
    /\ run[1].searches[1].hits # {}
    /\ run[1].searches[2].ok
    /\ run[1].searches[2].items # <<>>
    /\ run[1].assigned # <<>>

\* ------------------------------------------------- what a run changes

\* The fetched copies of tracking issue n.
Fetched(n) == {k \in 1..Len(run[1].snap) : run[1].snap[k].number = n}

\* What a step of the tool does to the upstream issues and to the issues of
\* the tracking repository: the upstream issues are as they were; every
\* tracking issue is still there with its number and body, not reopened,
\* and changed only if the run has called close_tracking_issue for it,
\* which it does only for an issue fetched open with a back-reference; an
\* issue added is open and refers to an issue the searches returned.
FrameHolds ==
    LET added == Len(repo') - Len(repo)
    IN  /\ up' = up
        /\ added >= 0
        /\ \A k \in 1..Len(repo) :
              /\ repo'[k + added].number = repo[k].number
              /\ repo'[k + added].body = repo[k].body
              /\ repo'[k + added].comments >= repo[k].comments
              /\ repo[k].state = "closed" => repo'[k + added].state = "closed"
              /\ repo'[k + added] # repo[k]
                    => repo[k].number \in Range(run'[1].closes)
        /\ \A n \in Range(run'[1].closes) :
              /\ Fetched(n) # {}
              /\ \A k \in Fetched(n) :
                    /\ run[1].snap[k].state = "open"
                    /\ ExtractOriginalIssueUrl(run[1].snap[k].body) # NoUrl
        /\ \A k \in 1..added :
              /\ repo'[k].state = "open"
              /\ \E id \in Range(run[1].assigned) :
                    ExtractOriginalIssueUrl(repo'[k].body) = HtmlUrl(id)

\* C17: frame: the only changes a run makes are tracking issues created and
\* tracking issues taken from open to closed (with the closing comment); it
\* never reopens or deletes a tracking issue, never asks to close or
\* comment one that was closed when fetched or has no recognizable
\* back-reference, and never changes an upstream issue.  The steps that
\* leave envs as it is are the tool's.
RunFrame == [][envs' = envs => FrameHolds]_vars

\* One run has made a tracking issue and closed another.
RunFrameWitness ==
    /\ run[1].pc = "done"
    /\ run[1].made # <<>>
    /\ run[1].patched # <<>>

\* ------------------------------------------------- the closing comment

\* C18: close-then-comment: the comment request is made once for each
\* state-change request answered with success and for no other, and over
\* the runs a tracking issue receives at most one closing comment, and none
\* while it is open.
CommentOnceAfterClose ==
    /\ \A n \in Range(run[1].closes) :
          Count(run[1].posts, n) = Count(run[1].patched, n)
    /\ Range(run[1].posts) \subseteq Range(run[1].closes)
    /\ \A k \in 1..Len(repo) :
          /\ repo[k].comments <= 1
          /\ repo[k].comments > 0 => repo[k].state = "closed"

\* ------------------------------------- searches that fail, and closing

\* The last answer of the issue-get request the reverse pass made for
\* tracking issue n was 200 with state closed.
ConfirmedClosed(n) ==
    \E q \in 1..Len(run[1].queries) :
        /\ run[1].queries[q] =
              [number |-> n, resp |-> [status |-> "200", state |-> "closed"]]

\* The back-references of the fetched copies of tracking issue n.
BackReferences(n) ==
    {ExtractOriginalIssueUrl(run[1].snap[k].body) : k \in Fetched(n)}

\* The URLs processed_urls would hold for certain had every search of the
\* run been answered with success: those of the issues of other
\* repositories that matched a search whose matches fit the effective limit.
WouldBeProcessed ==
    {HtmlUrl(id) : id \in
        UNION {run[1].searches[u].hits :
                  u \in {v \in 1..Len(run[1].searches) :
                            Cardinality(run[1].searches[v].hits) <= EffectiveLimit}}
        \ OwnIds}

\* A search of the run of process 1 has failed.
SomeSearchFailed ==
    \E u \in 1..Len(run[1].searches) : ~run[1].searches[u].ok

\* Every issue that matched a search of the run is open still.
MatchesStillOpen ==
    \A u \in 1..Len(run[1].searches) :
        \A id \in run[1].searches[u].hits : up[id].state = "open"

\* C19 as stated: in a run with a failed search no tracking
\* issue is closed unless the issue-get request found its original closed,
\* and the run closes what it would have closed had every search
\* succeeded: no tracking issue whose original a successful search would
\* have put into processed_urls.
FailedSearchClosesTheSame ==
    SomeSearchFailed =>
        \A n \in Range(run[1].closes) :
            /\ ConfirmedClosed(n)
            /\ BackReferences(n) \cap WouldBeProcessed = {}

\* C19: in a run with a failed search no tracking issue is closed unless
\* the issue-get request found its original closed; and if no issue that
\* matched a search was closed between the searches and the issue-get
\* requests, the run closes no tracking issue whose original a successful
\* search would have put into processed_urls.
FailedSearchNoWrongClose ==
    SomeSearchFailed =>
        \A n \in Range(run[1].closes) :
            /\ ConfirmedClosed(n)
            /\ MatchesStillOpen => BackReferences(n) \cap WouldBeProcessed = {}

\* A search has failed for a user with an open assigned issue that has an
\* open tracking issue, and the run has closed another tracking issue.
FailedSearchNoWrongCloseWitness ==
    /\ run[1].pc = "done"
    /\ MatchesStillOpen
    /\ run[1].patched # <<>>
    /\ \E u \in 1..Len(run[1].searches) :
          /\ ~run[1].searches[u].ok
          /\ \E id \in run[1].searches[u].hits :
                /\ HtmlUrl(id) \notin run[1].processed
                /\ \E k \in 1..Len(run[1].snap) :
                      /\ run[1].snap[k].state = "open"
                      /\ ExtractOriginalIssueUrl(run[1].snap[k].body) = HtmlUrl(id)

\* ------------------------------------------------- runs that overlap

\* Two processes are about to run the tool against the same, empty
\* tracking repository, with some of the upstream issues assigned.  Every
\* request of theirs is answered with success: the failures are spent.
InitRace ==
    /\ cfg \in Configs
    /\ \E given \in SUBSET Assignable :
          up = [id \in Ids |->
                  [state |-> "open",
                   assignees |-> {a[2] : a \in {b \in given : b[1] = id}},
                   body |-> InitialBody(id)]]
    /\ repo = <<>>
    /\ run = [q \in Procs |-> Idle]
    /\ hist = [ok |-> FALSE, assigned |-> <<>>]
    /\ runs = 0
    /\ envs = 0
    /\ faults = MaxFaults
    /\ cli = Invoked("tok")

\* The steps of the two processes come in any order; the upstream issues
\* stay as they are.
NextRace ==
    \/ \E p \in Procs : StartRun(p)
    \/ \E p \in Procs : SearchUser(p)
    \/ \E p \in Procs : FetchPage(p)
    \/ \E p \in Procs : ForwardStep(p)
    \/ \E p \in Procs : ReverseStep(p)
    \/ \E p \in Procs : EndRun(p)

SpecRace == InitRace /\ [][NextRace]_vars

\* The forward pass of process p is past issue id, which it was assigned.
PastForward(p, id) ==
    /\ run[p].pc \in {"forward", "reverse", "done"}
    /\ \E k \in 1..Len(run[p].assigned) :
          /\ run[p].assigned[k] = id
          /\ run[p].pc = "forward" => k < run[p].i

\* The tracking issues whose back-reference is the URL of issue id.
MirrorsOf(id) ==
    {k \in 1..Len(repo) : ExtractOriginalIssueUrl(repo[k].body) = HtmlUrl(id)}

\* C16: race between runs: nothing guards the creation against another
\* run.  A run whose fetched list holds no tracking issue for an assigned
\* issue creates one once its request succeeds, whatever the other run has
\* created since the list was fetched, so the tracking repository holds as
\* many tracking issues for the issue as there are such runs.
RaceCreatesTwice ==
    \A id \in UpstreamIds :
        /\ \A p \in Procs :
              (/\ PastForward(p, id)
               /\ ScanFrom(run[p].snap, HtmlUrl(id), 1) = 0
               /\ ~run[p].fails)
                  => id \in Range(run[p].made)
        /\ Cardinality(MirrorsOf(id)) >=
              Cardinality({p \in Procs : id \in Range(run[p].made)})

\* Both runs fetched their lists before either created, both created, and
\* two open tracking issues have the same back-reference.
RaceCreatesTwiceWitness ==
    \E id \in UpstreamIds :
        /\ \A p \in Procs :
              /\ run[p].pc = "done"
              /\ run[p].snap = <<>>
              /\ id \in Range(run[p].made)
        /\ Cardinality({k \in MirrorsOf(id) : repo[k].state = "open"}) = 2

\* ------------------------------------------------- runs without end

\* The tool is run again and again (the scheduler of the deployment),
\* with pages and search results large enough for everything there is.
InitLive ==
    /\ cfg = [per_page |-> 2, page_limit |-> 2]
    /\ up = [id \in Ids |-> [state |-> "open", assignees |-> {},
                             body |-> InitialBody(id)]]
    /\ repo = <<>>
    /\ run = [q \in Procs |-> Idle]
    /\ hist = [ok |-> FALSE, assigned |-> <<>>]
    /\ runs = 0
    /\ envs = 0
    /\ faults = 0
    /\ cli = Invoked("tok")

\* run() is called once more, however many runs there were.
RunAgain(p) ==
    /\ cli.pc = "running"
    /\ run[p].pc = "idle"
    /\ run' = [run EXCEPT ![p] = [Idle EXCEPT !.pc = "search"]]
    /\ UNCHANGED <<cli, cfg, up, repo, hist, runs, envs, faults>>

NextLive ==
    \/ RunAgain(1)
    \/ SearchUser(1)
    \/ FetchPage(1)
    \/ ForwardStep(1)
    \/ ReverseStep(1)
    \/ EndRun(1)
    \/ Environment

\* A step of the tool: the process is sequential, one of these at a time.
ToolStep ==
    \/ RunAgain(1)
    \/ SearchUser(1)
    \/ FetchPage(1)
    \/ ForwardStep(1)
    \/ ReverseStep(1)
    \/ EndRun(1)

\* Every run that can start does, and every step of a run is taken.  The
\* environment changes MaxEnv times at most and MaxFaults requests fail at
\* most: from some point on the upstream issues stay as they are and every
\* request is answered with success.
SpecLive == InitLive /\ [][NextLive]_vars /\ WF_vars(ToolStep)

\* Every open assigned upstream issue has a tracking issue, and no open
\* tracking issue refers to an upstream issue that is closed and unassigned.
Consistent ==
    /\ \A id \in UpstreamIds :
          (up[id].state = "open" /\ up[id].assignees # {})
              => MirrorsOf(id) # {}
    /\ \A id \in UpstreamIds :
          (up[id].state = "closed" /\ up[id].assignees = {})
              => \A k \in MirrorsOf(id) : repo[k].state = "closed"

\* C15: eventual consistency by re-execution: with the upstream issues
\* unchanged from some point on, the runs repeated and the requests
\* succeeding in the end, every assigned upstream issue eventually has a
\* tracking issue and every open tracking issue whose original is closed
\* and unassigned is eventually closed, and so it stays.
EventuallyConsistent == <>[]Consistent

====
